---- MODULE Spec2Model ----
(***************************************************************************)
(* Connect-Four search core (four_in_a_row.py): the move generator, the    *)
(* segment evaluator and the three depth-limited searches (minimax,        *)
(* alphabeta, expectimax), with the variables the nested functions share   *)
(* (placement, score, alpha, beta) threaded through the recursion exactly  *)
(* as the nonlocal declarations make the code share them.                  *)
(***************************************************************************)
EXTENDS Integers, Sequences, FiniteSets, TLC

VARIABLES board, player, pc, alg, depth_limit, placement, value, ghost

vars == <<board, player, pc, alg, depth_limit, placement, value, ghost>>

(***************************************************************************)
(* Bounds of the model.                                                    *)
(***************************************************************************)
MaxDepth == 3

MaxDiscs == 3

(***************************************************************************)
(* The Board capability (game_board, outside the core).                    *)
(***************************************************************************)
PLAYER1 == 1

PLAYER2 == 2

EMPTY_SLOT == 0

\* the value None of placement: no column
None == -1

\* The boards a game is played on: one tall enough for vertical lines, one
\* wide enough for horizontal lines.
BoardSizes == {[rows |-> 4, cols |-> 3], [rows |-> 2, cols |-> 4]}

\* The board the evaluator is exercised on: every direction has segments.
EvalSize == [rows |-> 4, cols |-> 4]

EmptyBoard(size) ==
    [rows |-> size.rows, cols |-> size.cols,
     grid |-> [r \in 1..size.rows |-> [c \in 1..size.cols |-> EMPTY_SLOT]]]

\* board.row(r), r counted from 0 (row 0 is the top row)
row(b, r) == b.grid[r + 1]

\* board.col(c), c counted from 0
col(b, c) == [r \in 1..b.rows |-> b.grid[r][c + 1]]

\* board.placeable(c): the top slot of the column is free
placeable(b, c) == b.grid[1][c + 1] = EMPTY_SLOT

\* board.place(player, c) on a clone: the disc falls to the lowest free slot
place(b, p, c) ==
    LET r == CHOOSE q \in 1..b.rows :
                 /\ b.grid[q][c + 1] = EMPTY_SLOT
                 /\ \A k \in (q + 1)..b.rows : b.grid[k][c + 1] # EMPTY_SLOT
    IN  [b EXCEPT !.grid[r][c + 1] = p]

full(b) == \A c \in 0..(b.cols - 1) : ~placeable(b, c)

Directions == {<<0, 1>>, <<1, 0>>, <<1, 1>>, <<1, -1>>}

wins(b, p) ==
    \E r \in 1..b.rows, c \in 1..b.cols, d \in Directions :
        \A k \in 0..3 :
            /\ r + d[1] * k \in 1..b.rows
            /\ c + d[2] * k \in 1..b.cols
            /\ b.grid[r + d[1] * k][c + d[2] * k] = p

\* board.terminal(): someone has four in a row, or the board is full
terminal(b) == wins(b, PLAYER1) \/ wins(b, PLAYER2) \/ full(b)

(***************************************************************************)
(* get_child_boards                                                        *)
(***************************************************************************)
RECURSIVE child_loop(_, _, _)
child_loop(p, b, c) ==
    IF c >= b.cols THEN <<>>
    ELSE (IF placeable(b, c) THEN << <<c, place(b, p, c)>> >> ELSE <<>>)
         \o child_loop(p, b, c + 1)

\* get_child_boards with the columns reported counted from 1
get_child_boards_from1(p, b) ==
    [i \in 1..Len(child_loop(p, b, 0)) |->
        <<child_loop(p, b, 0)[i][1] + 1, child_loop(p, b, 0)[i][2]>>]

get_child_boards(p, b) == child_loop(p, b, 0)

(***************************************************************************)
(* evaluate                                                                *)
(***************************************************************************)
invalid_slot == -1

weights == <<0, 1, 4, 16, 1000>>

adversary_of(p) == IF p = PLAYER1 THEN PLAYER2 ELSE PLAYER1

\* left_revolved[r][j], both counted from 0
left_revolved(b, r, j) ==
    IF j < r THEN invalid_slot
    ELSE IF j - r < b.cols THEN row(b, r)[j - r + 1]
    ELSE invalid_slot

\* right_revolved[r][j], both counted from 0
right_revolved(b, r, j) ==
    IF j < b.rows - 1 - r THEN invalid_slot
    ELSE IF j - (b.rows - 1 - r) < b.cols THEN row(b, r)[j - (b.rows - 1 - r) + 1]
    ELSE invalid_slot

\* range(n)
range(n) == IF n <= 0 THEN {} ELSE 0..(n - 1)

\* The places of the list seg: one index per appended slice.
seg_index(b) ==
    ({"row"} \X range(b.rows) \X range(b.cols - 3))
    \cup ({"col"} \X range(b.cols) \X range(b.rows - 3))
    \cup ({"slash", "backslash"} \X range(b.cols + b.rows - 1) \X range(b.rows - 3))

\* The slice appended at a place of seg.
seg(b, k) ==
    CASE k[1] = "row"       -> [i \in 1..4 |-> row(b, k[2])[k[3] + i]]
      [] k[1] = "col"       -> [i \in 1..4 |-> col(b, k[2])[k[3] + i]]
      [] k[1] = "slash"     -> [i \in 1..4 |-> left_revolved(b, k[3] + i - 1, k[2])]
      [] k[1] = "backslash" -> [i \in 1..4 |-> right_revolved(b, k[3] + i - 1, k[2])]

In(x, s) == \E i \in 1..4 : s[i] = x

count(s, x) == Cardinality({i \in 1..4 : s[i] = x})

\* score[n] after the loop over seg (n counted from 0)
score_of(p, b, n) ==
    Cardinality({k \in seg_index(b) :
        LET s == seg(b, k)
        IN  ~In(invalid_slot, s) /\ ~In(adversary_of(p), s) /\ count(s, p) = n})

\* adv_score[n] indexed by the count of the player's own discs
adv_score_of_own_count(p, b, n) ==
    Cardinality({k \in seg_index(b) :
        LET s == seg(b, k)
        IN  ~In(invalid_slot, s) /\ ~In(p, s) /\ count(s, p) = n})

\* adv_score[n] after the loop over seg
adv_score_of(p, b, n) ==
    Cardinality({k \in seg_index(b) :
        LET s == seg(b, k)
        IN  ~In(invalid_slot, s) /\ ~In(p, s) /\ count(s, adversary_of(p)) = n})

RECURSIVE weighted(_, _, _, _)
weighted(p, b, n, mine) ==
    IF n > 4 THEN 0
    ELSE (IF mine THEN score_of(p, b, n) ELSE adv_score_of(p, b, n)) * weights[n + 1]
         + weighted(p, b, n + 1, mine)

evaluate(p, b) == weighted(p, b, 0, TRUE) - weighted(p, b, 0, FALSE)

(***************************************************************************)
(* The variables the nested functions of a search share (nonlocal), and    *)
(* the record of what a search did: how often the generator was called,    *)
(* how many successor boards were handed to value, which nodes expanded,   *)
(* which leaves were scored and what each expectation node reported.       *)
(***************************************************************************)
inf == 2000000000

\* max_player, next_player and the variables as set before the first call
closure(p) == [max_player |-> p, next_player |-> adversary_of(p)]

shared0 ==
    [placement |-> None, score |-> -inf, alpha |-> -inf, beta |-> inf,
     gen |-> 0, examined |-> 0, nodes |-> {}, leaves |-> {}, chance |-> {}]

Leaf(sh, ply, p, ev) ==
    [sh EXCEPT !.leaves = @ \cup {[ply |-> ply, player |-> p, eval_player |-> ev]}]

Enter(sh, ply, p, kind, child) ==
    [sh EXCEPT !.gen = @ + 1,
               !.nodes = @ \cup {[ply |-> ply, player |-> p, kind |-> kind,
                                  child_player |-> child]}]

Examine(sh) == [sh EXCEPT !.examined = @ + 1]

max(a, b) == IF a >= b THEN a ELSE b

min(a, b) == IF a <= b THEN a ELSE b

(***************************************************************************)
(* minimax                                                                 *)
(***************************************************************************)
RECURSIVE mm_value(_, _, _, _, _, _)
RECURSIVE mm_max_loop(_, _, _, _, _, _)
RECURSIVE mm_min_loop(_, _, _, _, _, _)

\* the for loop of max_value, from successor i on
mm_max_loop(e, succ, i, d, ply, sh) ==
    IF i > Len(succ) THEN sh
    ELSE LET r  == mm_value(e, e.next_player, succ[i][2], d - 1, ply + 1, Examine(sh))
         IN  IF r.sh.score < r.val
             THEN mm_max_loop(e, succ, i + 1, d, ply,
                      [r.sh EXCEPT !.score = r.val, !.placement = succ[i][1]])
             ELSE mm_max_loop(e, succ, i + 1, d, ply, r.sh)

mm_max_value(e, p, b, d, ply, sh) ==
    LET s0 == Enter([sh EXCEPT !.score = -inf], ply, p, "MAX", e.next_player)
        s1 == mm_max_loop(e, get_child_boards(p, b), 1, d, ply, s0)
    IN  [val |-> s1.score, sh |-> s1]

\* the for loop of min_value, from successor i on
mm_min_loop(e, succ, i, d, ply, sh) ==
    IF i > Len(succ) THEN sh
    ELSE LET r  == mm_value(e, e.next_player, succ[i][2], d - 1, ply + 1, Examine(sh))
         IN  IF r.sh.score > r.val
             THEN mm_min_loop(e, succ, i + 1, d, ply,
                      [r.sh EXCEPT !.score = r.val, !.placement = succ[i][1]])
             ELSE mm_min_loop(e, succ, i + 1, d, ply, r.sh)

mm_min_value(e, p, b, d, ply, sh) ==
    LET s0 == Enter([sh EXCEPT !.score = inf], ply, p, "MIN", e.next_player)
        s1 == mm_min_loop(e, get_child_boards(p, b), 1, d, ply, s0)
    IN  [val |-> s1.score, sh |-> s1]

mm_value(e, p, b, d, ply, sh) ==
    IF d = 0 \/ terminal(b)
    THEN [val |-> evaluate(e.max_player, b), sh |-> Leaf(sh, ply, p, e.max_player)]
    ELSE IF p = e.max_player
         THEN mm_max_value(e, p, b, d, ply, sh)
         ELSE mm_min_value(e, p, b, d, ply, sh)

\* minimax(player, board, depth_limit): the shared variables when it returns
minimax(p, b, d) ==
    LET r == mm_value(closure(p), p, b, d, 1, shared0)
    IN  [r.sh EXCEPT !.score = r.val]

(***************************************************************************)
(* alphabeta                                                               *)
(***************************************************************************)
RECURSIVE ab_value(_, _, _, _, _, _)
RECURSIVE ab_max_loop(_, _, _, _, _, _, _)
RECURSIVE ab_min_loop(_, _, _, _, _, _, _)

ab_max_loop(e, p, succ, i, d, ply, sh) ==
    IF i > Len(succ) THEN sh
    ELSE LET r  == ab_value(e, p, succ[i][2], d - 1, ply + 1, Examine(sh))
             s2 == IF r.sh.score < r.val
                   THEN [r.sh EXCEPT !.score = r.val, !.placement = succ[i][1],
                                     !.alpha = max(@, r.val)]
                   ELSE r.sh
         IN  IF s2.beta <= s2.alpha THEN s2
             ELSE ab_max_loop(e, p, succ, i + 1, d, ply, s2)

ab_max_value(e, p, b, d, ply, sh) ==
    LET s0 == Enter([sh EXCEPT !.score = -inf], ply, p, "MAX", p)
        s1 == ab_max_loop(e, p, get_child_boards(p, b), 1, d, ply, s0)
    IN  [val |-> s1.score, sh |-> s1]

ab_min_loop(e, p, succ, i, d, ply, sh) ==
    IF i > Len(succ) THEN sh
    ELSE LET r  == ab_value(e, p, succ[i][2], d - 1, ply + 1, Examine(sh))
             s2 == IF r.sh.score > r.val
                   THEN [r.sh EXCEPT !.score = r.val, !.placement = succ[i][1],
                                     !.beta = min(@, r.val)]
                   ELSE r.sh
         IN  IF s2.beta <= s2.alpha THEN s2
             ELSE ab_min_loop(e, p, succ, i + 1, d, ply, s2)

ab_min_value(e, p, b, d, ply, sh) ==
    LET s0 == Enter([sh EXCEPT !.score = inf], ply, p, "MIN", p)
        s1 == ab_min_loop(e, p, get_child_boards(p, b), 1, d, ply, s0)
    IN  [val |-> s1.score, sh |-> s1]

ab_value(e, p, b, d, ply, sh) ==
    IF d = 0 \/ terminal(b)
    THEN [val |-> evaluate(p, b), sh |-> Leaf(sh, ply, p, p)]
    ELSE IF e.next_player = e.max_player
         THEN ab_max_value(e, p, b, d, ply, sh)
         ELSE ab_min_value(e, p, b, d, ply, sh)

alphabeta(p, b, d) ==
    LET r == ab_value(closure(p), p, b, d, 1, shared0)
    IN  [r.sh EXCEPT !.score = r.val]

(***************************************************************************)
(* expectimax.  The scores are floats in the code; here a score v is kept    *)
(* as the integer v * 7^depth_limit, so that every product (1 / 7) * val   *)
(* the search forms is an exact integer division.                          *)
(***************************************************************************)
RECURSIVE pow7(_)
pow7(n) == IF n = 0 THEN 1 ELSE 7 * pow7(n - 1)

\* (1 / 7) * val
seventh(val) == val \div 7

RECURSIVE ex_value(_, _, _, _, _, _)
RECURSIVE ex_max_loop(_, _, _, _, _, _)
RECURSIVE ex_min_loop(_, _, _, _, _, _, _)

ex_max_loop(e, succ, i, d, ply, sh) ==
    IF i > Len(succ) THEN sh
    ELSE LET r  == ex_value(e, e.next_player, succ[i][2], d - 1, ply + 1, Examine(sh))
         IN  IF r.sh.score < r.val
             THEN ex_max_loop(e, succ, i + 1, d, ply,
                      [r.sh EXCEPT !.score = r.val, !.placement = succ[i][1]])
             ELSE ex_max_loop(e, succ, i + 1, d, ply, r.sh)

ex_max_value(e, p, b, d, ply, sh) ==
    LET s0 == Enter(sh, ply, p, "MAX", e.next_player)
        s1 == ex_max_loop(e, get_child_boards(p, b), 1, d, ply, s0)
    IN  [val |-> s1.score, sh |-> s1]

\* the for loop of min_value, from successor i on; acc is the record kept of
\* the node: the sum of its children's values and whether it set placement
ex_min_loop(e, succ, i, d, ply, sh, acc) ==
    IF i > Len(succ) THEN [sh |-> sh, acc |-> acc]
    ELSE LET r  == ex_value(e, e.next_player, succ[i][2], d - 1, ply + 1, Examine(sh))
             s1 == [r.sh EXCEPT !.score = @ + seventh(r.val)]
         IN  IF s1.score < r.val
             THEN ex_min_loop(e, succ, i + 1, d, ply,
                      [s1 EXCEPT !.score = r.val, !.placement = succ[i][1]],
                      [sum |-> acc.sum + r.val, selected |-> TRUE])
             ELSE ex_min_loop(e, succ, i + 1, d, ply, s1,
                      [sum |-> acc.sum + r.val, selected |-> acc.selected])

ex_min_value(e, p, b, d, ply, sh) ==
    LET s0   == Enter([sh EXCEPT !.score = 0], ply, p, "CHANCE", e.next_player)
        succ == get_child_boards(p, b)
        l    == ex_min_loop(e, succ, 1, d, ply, s0, [sum |-> 0, selected |-> FALSE])
    IN  [val |-> l.sh.score,
         sh  |-> [l.sh EXCEPT !.chance = @ \cup
                     {[ply |-> ply, k |-> Len(succ), sum |-> l.acc.sum,
                       val |-> l.sh.score, selected |-> l.acc.selected]}]]

\* value without the test of board.terminal()
ex_value_depth_only(e, p, b, d, ply, sh) ==
    IF d = 0
    THEN [val |-> evaluate(p, b) * e.unit, sh |-> Leaf(sh, ply, p, p)]
    ELSE IF p = e.max_player
         THEN ex_max_value(e, p, b, d, ply, sh)
         ELSE ex_min_value(e, p, b, d, ply, sh)

ex_value(e, p, b, d, ply, sh) ==
    IF d = 0 \/ terminal(b)
    THEN [val |-> evaluate(p, b) * e.unit, sh |-> Leaf(sh, ply, p, p)]
    ELSE IF p = e.max_player
         THEN ex_max_value(e, p, b, d, ply, sh)
         ELSE ex_min_value(e, p, b, d, ply, sh)

expectimax(p, b, d) ==
    LET e == [max_player |-> p, next_player |-> adversary_of(p), unit |-> pow7(d)]
        r == ex_value(e, p, b, d, 1, shared0)
    IN  [r.sh EXCEPT !.score = r.val]

(***************************************************************************)
(* The game: the caller runs one strategy on the live board for the player *)
(* to move and applies the column it returns.                              *)
(***************************************************************************)
search(a, p, b, d) ==
    CASE a = "minimax"    -> minimax(p, b, d)
      [] a = "alphabeta"  -> alphabeta(p, b, d)
      [] a = "expectimax" -> expectimax(p, b, d)

ghost_of(sh) ==
    [gen |-> sh.gen, examined |-> sh.examined, nodes |-> sh.nodes,
     leaves |-> sh.leaves, chance |-> sh.chance]

ghost0 == ghost_of(shared0)

Init ==
    /\ board \in {EmptyBoard(size) : size \in BoardSizes}
    /\ player = PLAYER1
    /\ pc = "idle"
    /\ alg = "none"
    /\ depth_limit = 0
    /\ placement = None
    /\ value = 0
    /\ ghost = ghost0

Run(a, d) ==
    /\ pc = "idle"
    /\ LET sh == search(a, player, board, d)
       IN  /\ placement' = sh.placement
           /\ value' = sh.score
           /\ ghost' = ghost_of(sh)
    /\ alg' = a
    /\ depth_limit' = d
    /\ pc' = "done"
    /\ UNCHANGED <<board, player>>

Minimax == \E d \in 0..MaxDepth : Run("minimax", d)

Alphabeta == \E d \in 0..MaxDepth : Run("alphabeta", d)

Expectimax == \E d \in 0..MaxDepth : Run("expectimax", d)

\* The caller applies the returned column to the live board.
Apply ==
    /\ pc = "done"
    /\ placement # None
    /\ board' = place(board, player, placement)
    /\ player' = adversary_of(player)
    /\ pc' = "idle"
    /\ alg' = "none"
    /\ depth_limit' = 0
    /\ placement' = None
    /\ value' = 0
    /\ ghost' = ghost0

Next == Minimax \/ Alphabeta \/ Expectimax \/ Apply

Spec == Init /\ [][Next]_vars

(***************************************************************************)
(* The evaluator on arbitrary layouts: discs are set anywhere on the grid, *)
(* floating ones included, and the layout is then scored for one player.   *)
(***************************************************************************)
discs(b) ==
    Cardinality({rc \in (1..b.rows) \X (1..b.cols) : b.grid[rc[1]][rc[2]] # EMPTY_SLOT})

InitEval ==
    /\ board = EmptyBoard(EvalSize)
    /\ player = PLAYER1
    /\ pc = "layout"
    /\ alg = "none"
    /\ depth_limit = 0
    /\ placement = None
    /\ value = 0
    /\ ghost = ghost0

SetSlot ==
    /\ pc = "layout"
    /\ discs(board) < MaxDiscs
    /\ \E r \in 1..board.rows, c \in 1..board.cols, p \in {PLAYER1, PLAYER2} :
           /\ board.grid[r][c] = EMPTY_SLOT
           /\ board' = [board EXCEPT !.grid[r][c] = p]
    /\ UNCHANGED <<player, pc, alg, depth_limit, placement, value, ghost>>

Evaluate ==
    /\ pc = "layout"
    /\ \E p \in {PLAYER1, PLAYER2} :
           /\ player' = p
           /\ value' = evaluate(p, board)
    /\ pc' = "evaluated"
    /\ UNCHANGED <<board, alg, depth_limit, placement, ghost>>

NextEval == SetSlot \/ Evaluate

SpecEval == InitEval /\ [][NextEval]_vars

(***************************************************************************)
(* Properties.                                                             *)
(***************************************************************************)
Searched == pc = "done"

PlaceableCols(b) == {c \in range(b.cols) : placeable(b, c)}

\* The columns where a disc of p completes four in a row.
WinningCols(b, p) == {c \in PlaceableCols(b) : wins(place(b, p, c), p)}

SetMax(S) == CHOOSE x \in S : \A y \in S : y <= x

SetMin(S) == CHOOSE x \in S : \A y \in S : x <= y

\* The depth-limited minimax value of a position for the requester req, with
\* p to move: turns alternate and every leaf is scored for req.
RECURSIVE MinimaxValue(_, _, _, _)
MinimaxValue(req, p, b, d) ==
    IF d = 0 \/ terminal(b) THEN evaluate(req, b)
    ELSE LET vals == {MinimaxValue(req, adversary_of(p), place(b, p, c), d - 1) :
                         c \in PlaceableCols(b)}
         IN  IF p = req THEN SetMax(vals) ELSE SetMin(vals)

\* The lowest column whose successor has the greatest minimax value.
RootBest(req, b, d) ==
    LET v(c) == MinimaxValue(req, adversary_of(req), place(b, req, c), d - 1)
        best == SetMax({v(c) : c \in PlaceableCols(b)})
    IN  SetMin({c \in PlaceableCols(b) : v(c) = best})

\* No valid 4-slot segment holds discs of both players.
NoMixedSegment(b) ==
    \A k \in seg_index(b) :
        LET s == seg(b, k)
        IN  ~In(invalid_slot, s) => ~(In(PLAYER1, s) /\ In(PLAYER2, s))

\* C1: for every non-terminal board and depth limit >= 1, alphabeta returns
\* the column minimax returns for the same player, board and depth limit.
C1_AlphabetaEqualsMinimax ==
    (Searched /\ alg = "alphabeta" /\ depth_limit >= 1 /\ ~terminal(board))
        => placement = minimax(player, board, depth_limit).placement

\* C2: when exactly one column completes four in a row for the player to
\* move, minimax and alphabeta return that column at every depth limit >= 1.
C2_ImmediateWinPriority ==
    (Searched /\ alg \in {"minimax", "alphabeta"} /\ depth_limit >= 1
        /\ ~terminal(board) /\ Cardinality(WinningCols(board, player)) = 1)
        => placement \in WinningCols(board, player)

\* C3: when exactly one column is placeable on a non-terminal board, every
\* strategy returns that column at every depth limit >= 1.
C3_SingleOptionDeterminism ==
    (Searched /\ depth_limit >= 1 /\ ~terminal(board)
        /\ Cardinality(PlaceableCols(board)) = 1)
        => placement \in PlaceableCols(board)

\* C4: every expectation node expectimax explored, with k >= 1 legal moves,
\* reports the mean of its k children's values (k times its value is their
\* sum) and selects no placement.
C4_ExpectimaxWeighting ==
    (Searched /\ alg = "expectimax")
        => \A n \in ghost.chance :
               n.k >= 1 => (n.k * n.val = n.sum /\ ~n.selected)

\* C5: on every layout with no segment holding discs of both players, the
\* evaluation for one player is the negation of the evaluation for the other.
C5_EvaluatorAntisymmetry ==
    (pc = "evaluated" /\ NoMixedSegment(board))
        => value = -evaluate(adversary_of(player), board)

C5_Witness ==
    /\ pc = "evaluated"
    /\ NoMixedSegment(board)
    /\ value > 0
    /\ \E r \in 1..board.rows, c \in 1..board.cols : board.grid[r][c] = PLAYER1
    /\ \E r \in 1..board.rows, c \in 1..board.cols : board.grid[r][c] = PLAYER2
    /\ \E r \in 1..(board.rows - 1), c \in 1..board.cols :
           board.grid[r][c] # EMPTY_SLOT /\ board.grid[r + 1][c] = EMPTY_SLOT

\* C6: when the root is a leaf (depth limit 0, or a terminal board such as a
\* full one) every strategy returns None, the generator is never called and
\* no successor board is examined.
C6_NoMoveSignal ==
    (Searched /\ (depth_limit = 0 \/ terminal(board)))
        => (placement = None /\ ghost.gen = 0 /\ ghost.examined = 0)

C6_Witness ==
    /\ Searched
    /\ alg = "expectimax"
    /\ depth_limit >= 2
    /\ full(board)
    /\ ~wins(board, PLAYER1) /\ ~wins(board, PLAYER2)

\* C7: the column minimax returns is the one the root ply records: the
\* lowest placeable column whose successor has the greatest depth-limited
\* minimax value among the root's successors.
C7_MinimaxRootBinding ==
    (Searched /\ alg = "minimax" /\ depth_limit >= 1 /\ ~terminal(board))
        => placement = RootBest(player, board, depth_limit)

\* C8: every expanded node recurses with the opponent of the player moving
\* there, the mover at ply k is the requester when k is odd and the opponent
\* when k is even, and a node is a MAX node exactly when its mover is the
\* requester.
C8_TurnAlternation ==
    Searched =>
        \A n \in ghost.nodes :
            /\ n.child_player = adversary_of(n.player)
            /\ n.player = (IF n.ply % 2 = 1 THEN player ELSE adversary_of(player))
            /\ (n.kind = "MAX") <=> (n.player = player)

\* C9: every leaf reached by a search is scored by evaluate for the
\* requesting player, whoever is to move at the leaf.
C9_LeafPerspective ==
    Searched => \A l \in ghost.leaves : l.eval_player = player

\* C10: a column returned by a strategy is a column of the input board that
\* is placeable on it.
C10_ResultIsLegal ==
    (Searched /\ placement # None)
        => (placement \in range(board.cols) /\ placeable(board, placement))

C10_Witness ==
    /\ Searched
    /\ alg = "minimax"
    /\ depth_limit >= 2
    /\ placement # None
    /\ \E c \in range(board.cols) : ~placeable(board, c)
    /\ \E n \in ghost.nodes : n.ply >= 2

====
